---------------------------- MODULE Spec2Model ----------------------------
(***************************************************************************)
(* Payment microservice (payment_service/main.py, models.py).              *)
(*                                                                         *)
(* The four request handlers create_payment, get_payment, refund_payment   *)
(* and stripe_webhook run against one "payments" table and the external    *)
(* processor (Stripe).  Every handler works on its own ORM session         *)
(* (get_db): it loads the row once, changes attributes of the loaded       *)
(* object and commits.  The handlers are split at their suspension points  *)
(* (the SELECT, each processor call, the COMMIT), so that several workers  *)
(* serving requests against the same database interleave there.            *)
(*                                                                         *)
(* References are numbers: 0 is NULL / None, 1..n are the values.          *)
(***************************************************************************)
EXTENDS Integers, FiniteSets, Sequences, TLC

\* ------------------------------------------------------------------ bounds
MaxPayments == 2      \* payment ids (uuid4 values) that can be allocated
MaxProcs    == 2      \* requests that can be in flight at the same time
MaxRequests == 3      \* requests started in one behaviour
MaxIntents  == 2      \* distinct processor charge references

PaymentIds == 1..MaxPayments
Procs      == 1..MaxProcs
Intents    == 1..MaxIntents
OrderIds   == {"o1"}

\* ------------------------------------------------------- models.py: schema
PENDING   == "PENDING"
CONFIRMED == "CONFIRMED"
FAILED    == "FAILED"
REFUNDED  == "REFUNDED"

PaymentStatus == {PENDING, CONFIRMED, FAILED, REFUNDED}

\* A row of the payments table; payment_id is the key of db.
PaymentModel ==
    [status : PaymentStatus,
     order_id : OrderIds,
     stripe_payment_intent_id : {0} \cup Intents,
     stripe_session_id : {0} \cup PaymentIds]

\* The value of the per-request variables while no row is loaded.
NoPayment ==
    [status |-> "NONE", order_id |-> "", stripe_payment_intent_id |-> 0,
     stripe_session_id |-> 0]

\* -------------------------------------------------------------- processor
\* A checkout session as the processor reports it (Session.retrieve).
CheckoutSession ==
    [payment_status : {"unpaid", "paid"},
     status : {"open", "complete", "expired"},
     payment_intent : {0} \cup Intents,
     refunded : BOOLEAN]

\* ------------------------------------------------------------------- state
VARIABLES
    db,            \* payments table: payment_id -> row, for the ids persisted
    sessions,      \* processor: checkout sessions by session id
    pc,            \* per request slot: the handler's position
    req,           \* per request slot: the request being served
    loaded,        \* per request slot: the row as the handler's SELECT saw it
    payment,       \* per request slot: the ORM object (attributes as set)
    stripe_answer, \* per request slot: what the last processor call answered
    nreq,          \* requests started so far
    \* observers of the run (no handler reads them)
    last,          \* the request that finished last, and its response
    history,       \* per payment: the statuses its row has had, in order
    refund_calls,  \* per payment: Refund.create requests the processor received
    last_applied   \* per payment: the charge reference of the webhook event
                   \* whose undisturbed application was the last write (or 0)

vars == <<db, sessions, pc, req, loaded, payment, stripe_answer, nreq,
          last, history, refund_calls, last_applied>>

NoRequest == [op |-> "none", payment_id |-> 0, sig_ok |-> TRUE,
              type |-> "", payment_intent |-> 0]

\* The response to request r, whose handler loaded row and last heard answer
\* from the processor: the HTTP status code and the payment status shown.
Response(r, row, answer, code, view) ==
    [req |-> r, loaded |-> row, stripe_answer |-> answer,
     code |-> code, view |-> view]

Init ==
    /\ db = <<>>
    /\ sessions = <<>>
    /\ pc = [s \in Procs |-> "idle"]
    /\ req = [s \in Procs |-> NoRequest]
    /\ loaded = [s \in Procs |-> NoPayment]
    /\ payment = [s \in Procs |-> NoPayment]
    /\ stripe_answer = [s \in Procs |-> "none"]
    /\ nreq = 0
    /\ last = Response(NoRequest, NoPayment, "none", 0, "NONE")
    /\ history = [p \in PaymentIds |-> <<>>]
    /\ refund_calls = [p \in PaymentIds |-> 0]
    /\ last_applied = [p \in PaymentIds |-> 0]

\* A slot can take a new request when it serves none; the request goes to
\* the first such slot (the slots are interchangeable workers).
Idle(s) == pc[s] = "idle"
Free(s) == Idle(s) /\ nreq < MaxRequests /\ \A t \in Procs : Idle(t) => s <= t

\* db.query(PaymentModel).filter(payment_id == p).first()
Query(p) == IF p \in DOMAIN db THEN db[p] ELSE NoPayment

\* db.commit(): the unit of work writes the columns whose attribute differs
\* from the value loaded by this session, into the row as it is now.
Flush(row, old, new) ==
    [row EXCEPT
       !.status = IF new.status # old.status THEN new.status ELSE @,
       !.stripe_payment_intent_id =
           IF new.stripe_payment_intent_id # old.stripe_payment_intent_id
           THEN new.stripe_payment_intent_id ELSE @]

\* The statuses of row p, extended when a commit changes the status.
Recorded(p, row) ==
    [history EXCEPT ![p] = IF @ # <<>> /\ @[Len(@)] = row.status
                           THEN @ ELSE Append(@, row.status)]

\* A commit that writes the status and drops the row's session reference.
Commit_SessionCleared(s) ==
    LET p == req[s].payment_id
        row == [Flush(db[p], loaded[s], payment[s])
                  EXCEPT !.stripe_session_id = 0]
    IN /\ db' = [db EXCEPT ![p] = row]
       /\ history' = Recorded(p, row)
       /\ last_applied' = [last_applied EXCEPT ![p] =
             IF req[s].op = "webhook" /\ loaded[s] = db[p]
             THEN req[s].payment_intent ELSE 0]

\* The commit of slot s: its changed columns reach the row of its payment.
Commit(s) ==
    LET p == req[s].payment_id
        row == Flush(db[p], loaded[s], payment[s])
    IN /\ db' = [db EXCEPT ![p] = row]
       /\ history' = Recorded(p, row)
       /\ last_applied' = [last_applied EXCEPT ![p] =
             IF req[s].op = "webhook" /\ loaded[s] = db[p]
             THEN req[s].payment_intent ELSE 0]

\* A new request enters slot s.
Accept(s) ==
    /\ Free(s)
    /\ nreq' = nreq + 1

\* A later step of the handler in slot s.
Step(s, at) ==
    /\ pc[s] = at
    /\ UNCHANGED nreq

\* The handler of slot s, serving r with the row it loaded, the ORM object
\* obj and the processor's answer, goes on at position at.
Goto(s, r, row, obj, answer, at) ==
    /\ pc' = [pc EXCEPT ![s] = at]
    /\ req' = [req EXCEPT ![s] = r]
    /\ loaded' = [loaded EXCEPT ![s] = row]
    /\ payment' = [payment EXCEPT ![s] = obj]
    /\ stripe_answer' = [stripe_answer EXCEPT ![s] = answer]
    /\ UNCHANGED last

\* The handler of slot s ends: request r is answered with the HTTP status
\* code and shows the payment status view; the slot's session is closed.
Finish(s, r, row, answer, code, view) ==
    /\ pc' = [pc EXCEPT ![s] = "idle"]
    /\ req' = [req EXCEPT ![s] = NoRequest]
    /\ loaded' = [loaded EXCEPT ![s] = NoPayment]
    /\ payment' = [payment EXCEPT ![s] = NoPayment]
    /\ stripe_answer' = [stripe_answer EXCEPT ![s] = "none"]
    /\ last' = Response(r, row, answer, code, view)

\* ------------------------------------------------ create_payment (85-145)
\* str(uuid.uuid4()): an id no payment and no checkout session carries yet.
NewPaymentId == CHOOSE p \in PaymentIds \ DOMAIN sessions :
                    \A q \in PaymentIds \ DOMAIN sessions : p <= q

\* The session stripe.checkout.Session.create opens.
NewSession ==
    [payment_status |-> "unpaid", status |-> "open", payment_intent |-> 0,
     refunded |-> FALSE]

\* The PaymentModel object create_payment builds.
NewPayment(o, sid) ==
    [status |-> PENDING, order_id |-> o, stripe_payment_intent_id |-> 0,
     stripe_session_id |-> sid]

\* create_payment that swallows the processor's error and goes on to persist
\* the record, without a session reference.
CreatePaymentCall_ErrorSwallowed(s) ==
    /\ PaymentIds \ DOMAIN sessions # {}
    /\ Accept(s)
    /\ \E o \in OrderIds, ok \in BOOLEAN :
         LET r == [NoRequest EXCEPT !.op = "create",
                                    !.payment_id = NewPaymentId]
         IN /\ sessions' = IF ok THEN sessions @@ (NewPaymentId :> NewSession)
                                 ELSE sessions
            /\ Goto(s, r, NoPayment,
                    NewPayment(o, IF ok THEN NewPaymentId ELSE 0),
                    IF ok THEN "ok" ELSE "error", "create_commit")
    /\ UNCHANGED <<db, history, refund_calls, last_applied>>

\* stripe.checkout.Session.create: the processor opens a session, which it
\* names after the payment it is tagged with, or the call raises StripeError
\* (400).  After the call the PaymentModel object is built.
CreatePaymentCall(s) ==
    /\ PaymentIds \ DOMAIN sessions # {}
    /\ Accept(s)
    /\ \E o \in OrderIds, ok \in BOOLEAN :
         LET r == [NoRequest EXCEPT !.op = "create",
                                    !.payment_id = NewPaymentId]
         IN IF ok
            THEN /\ sessions' = sessions @@ (NewPaymentId :> NewSession)
                 /\ Goto(s, r, NoPayment, NewPayment(o, NewPaymentId), "ok",
                         "create_commit")
            ELSE /\ Finish(s, r, NoPayment, "error", 400, "NONE")
                 /\ UNCHANGED sessions
    /\ UNCHANGED <<db, history, refund_calls, last_applied>>

\* db.add(db_payment); db.commit(); db.refresh(db_payment); the response
\* shows the refreshed row.
CreatePaymentCommit(s) ==
    /\ Step(s, "create_commit")
    /\ db' = db @@ (req[s].payment_id :> payment[s])
    /\ history' = Recorded(req[s].payment_id, payment[s])
    /\ Finish(s, req[s], loaded[s], stripe_answer[s], 200, payment[s].status)
    /\ UNCHANGED <<sessions, refund_calls, last_applied>>

\* --------------------------------------------------- get_payment (147-167)
\* The SELECT; 404 when there is no row; without a session reference the
\* loaded row is returned as it is.
GetPaymentQuery(s) ==
    /\ Accept(s)
    /\ \E p \in PaymentIds :
         LET r == [NoRequest EXCEPT !.op = "get", !.payment_id = p]
         IN IF p \notin DOMAIN db
            THEN Finish(s, r, NoPayment, "none", 404, "NONE")
            ELSE IF Query(p).stripe_session_id = 0
            THEN Finish(s, r, Query(p), "none", 200, Query(p).status)
            ELSE Goto(s, r, Query(p), Query(p), "none", "get_retrieve")
    /\ UNCHANGED <<db, sessions, history, refund_calls, last_applied>>

\* get_payment without the branch for an expired session.
GetPaymentStatus_ExpiredIgnored(status, session) ==
    IF session.payment_status = "paid" /\ status # CONFIRMED
    THEN CONFIRMED
    ELSE status

\* The status get_payment assigns after Session.retrieve answered session.
GetPaymentStatus(status, session) ==
    IF session.payment_status = "paid" /\ status # CONFIRMED
    THEN CONFIRMED
    ELSE IF session.status = "expired" /\ status = PENDING
    THEN FAILED
    ELSE status

\* What Session.retrieve reports of a session, in one word.
Reported(session) ==
    IF session.payment_status = "paid" THEN "paid" ELSE session.status

\* get_payment that takes a failed Session.retrieve for an expired session.
GetPaymentRetrieve_ErrorAsExpired(s) ==
    /\ Step(s, "get_retrieve")
    /\ \E ok \in BOOLEAN :
         LET session == IF ok THEN sessions[payment[s].stripe_session_id]
                        ELSE [NewSession EXCEPT !.status = "expired"]
             new == GetPaymentStatus(payment[s].status, session)
             answer == IF ok THEN Reported(session) ELSE "error"
         IN IF new # payment[s].status
            THEN Goto(s, req[s], loaded[s],
                      [payment[s] EXCEPT !.status = new], answer,
                      "get_commit")
            ELSE Finish(s, req[s], loaded[s], answer, 200,
                        payment[s].status)
    /\ UNCHANGED <<db, sessions, history, refund_calls, last_applied>>

\* stripe.checkout.Session.retrieve and the two branches; an error of the
\* call is not caught (500).  Without a branch taken the loaded object is
\* returned.
GetPaymentRetrieve(s) ==
    /\ Step(s, "get_retrieve")
    /\ \E ok \in BOOLEAN :
         IF ~ok
         THEN Finish(s, req[s], loaded[s], "error", 500, "NONE")
         ELSE LET session == sessions[payment[s].stripe_session_id]
                  new == GetPaymentStatus(payment[s].status, session)
              IN IF new # payment[s].status
                 THEN Goto(s, req[s], loaded[s],
                           [payment[s] EXCEPT !.status = new],
                           Reported(session), "get_commit")
                 ELSE Finish(s, req[s], loaded[s], Reported(session), 200,
                             payment[s].status)
    /\ UNCHANGED <<db, sessions, history, refund_calls, last_applied>>

\* get_payment whose commit fails (500) when the row is no longer the one it
\* loaded.
GetPaymentCommit_StaleRefused(s) ==
    /\ Step(s, "get_commit")
    /\ IF db[req[s].payment_id] = loaded[s]
       THEN /\ Commit(s)
            /\ Goto(s, req[s], loaded[s], payment[s], stripe_answer[s],
                    "get_return")
       ELSE /\ Finish(s, req[s], loaded[s], stripe_answer[s], 500, "NONE")
            /\ UNCHANGED <<db, history, last_applied>>
    /\ UNCHANGED <<sessions, refund_calls>>

\* get_payment whose assignment never reaches the table (no commit).
GetPaymentCommit_NotWritten(s) ==
    /\ Step(s, "get_commit")
    /\ Goto(s, req[s], loaded[s], payment[s], stripe_answer[s], "get_return")
    /\ UNCHANGED <<db, history, last_applied, sessions, refund_calls>>

\* db.commit()
GetPaymentCommit(s) ==
    /\ Step(s, "get_commit")
    /\ Commit(s)
    /\ Goto(s, req[s], loaded[s], payment[s], stripe_answer[s], "get_return")
    /\ UNCHANGED <<sessions, refund_calls>>

\* return payment: the commit expired the object, so building the response
\* reads the row again.
GetPaymentReturn(s) ==
    /\ Step(s, "get_return")
    /\ Finish(s, req[s], loaded[s], stripe_answer[s], 200,
              Query(req[s].payment_id).status)
    /\ UNCHANGED <<db, sessions, history, refund_calls, last_applied>>

\* ------------------------------------------------ refund_payment (169-194)
\* refund_payment that refuses only a payment that is still PENDING.
RefundPaymentQuery_OnlyPendingRefused(s) ==
    /\ Accept(s)
    /\ \E p \in PaymentIds :
         LET r == [NoRequest EXCEPT !.op = "refund", !.payment_id = p]
         IN IF p \notin DOMAIN db
            THEN Finish(s, r, NoPayment, "none", 404, "NONE")
            ELSE IF Query(p).status = PENDING
            THEN Finish(s, r, Query(p), "none", 400, Query(p).status)
            ELSE Goto(s, r, Query(p), Query(p), "none", "refund_retrieve")
    /\ UNCHANGED <<db, sessions, history, refund_calls, last_applied>>

\* The SELECT, 404 without a row, 400 unless the loaded status is CONFIRMED.
RefundPaymentQuery(s) ==
    /\ Accept(s)
    /\ \E p \in PaymentIds :
         LET r == [NoRequest EXCEPT !.op = "refund", !.payment_id = p]
         IN IF p \notin DOMAIN db
            THEN Finish(s, r, NoPayment, "none", 404, "NONE")
            ELSE IF Query(p).status # CONFIRMED
            THEN Finish(s, r, Query(p), "none", 400, Query(p).status)
            ELSE Goto(s, r, Query(p), Query(p), "none", "refund_retrieve")
    /\ UNCHANGED <<db, sessions, history, refund_calls, last_applied>>

\* stripe.checkout.Session.retrieve(payment.stripe_session_id); StripeError
\* is answered with 400.  The charge to refund is session.payment_intent.
RefundPaymentRetrieve(s) ==
    /\ Step(s, "refund_retrieve")
    /\ \E ok \in BOOLEAN :
         IF ok
         THEN Goto(s, [req[s] EXCEPT !.payment_intent =
                         sessions[payment[s].stripe_session_id].payment_intent],
                   loaded[s], payment[s], "ok", "refund_create")
         ELSE Finish(s, req[s], loaded[s], "error", 400, payment[s].status)
    /\ UNCHANGED <<db, sessions, history, refund_calls, last_applied>>

\* A processor that refunds a charge as often as it is asked to.
RefundAnswers_RepeatAllowed(sid, payment_intent) ==
    IF payment_intent = 0
    THEN {"error"}
    ELSE {"error", "succeeded", "pending", "failed"}

\* The answers stripe.Refund.create can give for the charge of session sid:
\* a refund object with its status, or "error" (StripeError).  The processor
\* refuses a refund without a charge and a second refund of a charge.
RefundAnswers(sid, payment_intent) ==
    IF payment_intent = 0 \/ sessions[sid].refunded
    THEN {"error"}
    ELSE {"error", "succeeded", "pending", "failed"}

\* refund_payment that takes every refund that has not failed for done.
RefundPaymentCreate_PendingAccepted(s) ==
    /\ Step(s, "refund_create")
    /\ LET sid == payment[s].stripe_session_id
       IN \E answer \in RefundAnswers(sid, req[s].payment_intent) :
            /\ refund_calls' = [refund_calls EXCEPT ![req[s].payment_id] = @ + 1]
            /\ sessions' = [sessions EXCEPT ![sid].refunded =
                               @ \/ answer = "succeeded"]
            /\ IF answer \in {"succeeded", "pending"}
               THEN Goto(s, req[s], loaded[s],
                         [payment[s] EXCEPT !.status = REFUNDED], answer,
                         "refund_commit")
               ELSE Finish(s, req[s], loaded[s], answer, 400,
                           payment[s].status)
    /\ UNCHANGED <<db, history, last_applied>>

\* stripe.Refund.create(payment_intent=...) and the check of refund.status.
RefundPaymentCreate(s) ==
    /\ Step(s, "refund_create")
    /\ LET sid == payment[s].stripe_session_id
       IN \E answer \in RefundAnswers(sid, req[s].payment_intent) :
            /\ refund_calls' = [refund_calls EXCEPT ![req[s].payment_id] = @ + 1]
            /\ sessions' = [sessions EXCEPT ![sid].refunded =
                               @ \/ answer = "succeeded"]
            /\ IF answer = "succeeded"
               THEN Goto(s, req[s], loaded[s],
                         [payment[s] EXCEPT !.status = REFUNDED], answer,
                         "refund_commit")
               ELSE Finish(s, req[s], loaded[s], answer, 400,
                           payment[s].status)
    /\ UNCHANGED <<db, history, last_applied>>

\* db.commit() and the success message.
RefundPaymentCommit(s) ==
    /\ Step(s, "refund_commit")
    /\ Commit(s)
    /\ Finish(s, req[s], loaded[s], stripe_answer[s], 200, payment[s].status)
    /\ UNCHANGED <<sessions, refund_calls>>

\* ------------------------------------------------ stripe_webhook (196-223)
EventTypes == {"checkout.session.completed", "payment_intent.created"}

\* The payment_id an event's metadata can carry: none (0), one of this
\* service's, or one that belongs to another system.
EventPaymentIds == 0..(MaxPayments + 1)

\* stripe_webhook that confirms the row without recording the charge.
WebhookApply_StatusOnly(row, session_payment_intent) ==
    [row EXCEPT !.status = CONFIRMED]

\* The attributes stripe_webhook assigns to the row it found.
WebhookApply(row, session_payment_intent) ==
    [row EXCEPT !.status = CONFIRMED,
                !.stripe_payment_intent_id = session_payment_intent]

\* stripe_webhook that applies a verified event of any type.
WebhookQuery_AnyType(r) ==
    IF r.sig_ok /\ r.payment_id # 0
    THEN Query(r.payment_id)
    ELSE NoPayment

\* The row stripe_webhook looks for: none unless the event is verified, is a
\* checkout.session.completed and names a payment_id.
WebhookQuery(r) ==
    IF r.sig_ok /\ r.type = "checkout.session.completed" /\ r.payment_id # 0
    THEN Query(r.payment_id)
    ELSE NoPayment

\* stripe_webhook without the signature check.
StripeWebhookQuery_Unverified(s) ==
    /\ Accept(s)
    /\ \E sig_ok \in BOOLEAN, type \in EventTypes,
          p \in EventPaymentIds, pi \in Intents :
         LET r == [op |-> "webhook", payment_id |-> p, sig_ok |-> sig_ok,
                   type |-> type, payment_intent |-> pi]
             row == WebhookQuery([r EXCEPT !.sig_ok = TRUE])
         IN IF row = NoPayment
            THEN Finish(s, r, NoPayment, "none", 200, "NONE")
            ELSE Goto(s, r, row, WebhookApply(row, pi), "none",
                      "webhook_commit")
    /\ UNCHANGED <<db, sessions, history, refund_calls, last_applied>>

\* stripe_webhook that answers 404 to an event whose payment it cannot find.
StripeWebhookQuery_NotFound(s) ==
    /\ Accept(s)
    /\ \E sig_ok \in BOOLEAN, type \in EventTypes,
          p \in EventPaymentIds, pi \in Intents :
         LET r == [op |-> "webhook", payment_id |-> p, sig_ok |-> sig_ok,
                   type |-> type, payment_intent |-> pi]
             row == WebhookQuery(r)
         IN IF ~sig_ok
            THEN Finish(s, r, NoPayment, "none", 400, "NONE")
            ELSE IF type # "checkout.session.completed"
            THEN Finish(s, r, NoPayment, "none", 200, "NONE")
            ELSE IF row = NoPayment
            THEN Finish(s, r, NoPayment, "none", 404, "NONE")
            ELSE Goto(s, r, row, WebhookApply(row, pi), "none",
                      "webhook_commit")
    /\ UNCHANGED <<db, sessions, history, refund_calls, last_applied>>

\* Webhook.construct_event, the event type, the payment_id of the metadata
\* and the SELECT.  A bad signature is answered with 400; every verified
\* event that selects no row is answered with success.
StripeWebhookQuery(s) ==
    /\ Accept(s)
    /\ \E sig_ok \in BOOLEAN, type \in EventTypes,
          p \in EventPaymentIds, pi \in Intents :
         LET r == [op |-> "webhook", payment_id |-> p, sig_ok |-> sig_ok,
                   type |-> type, payment_intent |-> pi]
             row == WebhookQuery(r)
         IN IF ~sig_ok
            THEN Finish(s, r, NoPayment, "none", 400, "NONE")
            ELSE IF row = NoPayment
            THEN Finish(s, r, NoPayment, "none", 200, "NONE")
            ELSE Goto(s, r, row, WebhookApply(row, pi), "none",
                      "webhook_commit")
    /\ UNCHANGED <<db, sessions, history, refund_calls, last_applied>>

\* stripe_webhook that answers an event for an already confirmed payment
\* with an error.
StripeWebhookCommit_DuplicateRefused(s) ==
    /\ Step(s, "webhook_commit")
    /\ IF loaded[s].status = CONFIRMED
       THEN /\ Finish(s, req[s], loaded[s], stripe_answer[s], 400, "NONE")
            /\ UNCHANGED <<db, history, last_applied>>
       ELSE /\ Commit(s)
            /\ Finish(s, req[s], loaded[s], stripe_answer[s], 200, "NONE")
    /\ UNCHANGED <<sessions, refund_calls>>

\* db.commit() and the acknowledgement.
StripeWebhookCommit(s) ==
    /\ Step(s, "webhook_commit")
    /\ Commit(s)
    /\ Finish(s, req[s], loaded[s], stripe_answer[s], 200, "NONE")
    /\ UNCHANGED <<sessions, refund_calls>>

\* ---------------------------------------------------------- the processor
\* The charge reference the processor gives the payment of session sid.
ChargeOf(sid) == ((sid - 1) % MaxIntents) + 1

\* The customer pays an open checkout session: the processor charges it.
SessionPaid(sid) ==
    /\ sid \in DOMAIN sessions
    /\ sessions[sid].status = "open"
    /\ sessions' = [sessions EXCEPT ![sid].payment_status = "paid",
                                   ![sid].status = "complete",
                                   ![sid].payment_intent = ChargeOf(sid)]
    /\ UNCHANGED <<db, pc, req, loaded, payment, stripe_answer, nreq, last,
                   history, refund_calls, last_applied>>

\* An open checkout session expires unpaid.
SessionExpired(sid) ==
    /\ sid \in DOMAIN sessions
    /\ sessions[sid].status = "open"
    /\ sessions' = [sessions EXCEPT ![sid].status = "expired"]
    /\ UNCHANGED <<db, pc, req, loaded, payment, stripe_answer, nreq, last,
                   history, refund_calls, last_applied>>

\* ----------------------------------------------------------- specification
Next ==
    \/ \E s \in Procs : CreatePaymentCall(s)
    \/ \E s \in Procs : CreatePaymentCommit(s)
    \/ \E s \in Procs : GetPaymentQuery(s)
    \/ \E s \in Procs : GetPaymentRetrieve(s)
    \/ \E s \in Procs : GetPaymentCommit(s)
    \/ \E s \in Procs : GetPaymentReturn(s)
    \/ \E s \in Procs : RefundPaymentQuery(s)
    \/ \E s \in Procs : RefundPaymentRetrieve(s)
    \/ \E s \in Procs : RefundPaymentCreate(s)
    \/ \E s \in Procs : RefundPaymentCommit(s)
    \/ \E s \in Procs : StripeWebhookQuery(s)
    \/ \E s \in Procs : StripeWebhookCommit(s)
    \/ \E sid \in PaymentIds : SessionPaid(sid)
    \/ \E sid \in PaymentIds : SessionExpired(sid)

Spec == Init /\ [][Next]_vars

TypeOK ==
    /\ DOMAIN db \subseteq PaymentIds
    /\ \A p \in DOMAIN db : db[p] \in PaymentModel
    /\ \A sid \in DOMAIN sessions : sessions[sid] \in CheckoutSession
    /\ nreq \in 0..MaxRequests

\* ------------------------------------------- one payment, once it is created
\* The payment the first create_payment of a fresh service stores.
FirstPaymentId == 1

\* The service right after that create_payment has returned: the row is
\* stored Pending with its session reference, the processor holds the open
\* session, no request is in flight.  nreq counts the requests started from
\* here on.
CreatedInit ==
    /\ db = (FirstPaymentId :> NewPayment("o1", FirstPaymentId))
    /\ sessions = (FirstPaymentId :> NewSession)
    /\ pc = [s \in Procs |-> "idle"]
    /\ req = [s \in Procs |-> NoRequest]
    /\ loaded = [s \in Procs |-> NoPayment]
    /\ payment = [s \in Procs |-> NoPayment]
    /\ stripe_answer = [s \in Procs |-> "none"]
    /\ nreq = 0
    /\ last = Response([NoRequest EXCEPT !.op = "create",
                                         !.payment_id = FirstPaymentId],
                       NoPayment, "ok", 200, PENDING)
    /\ history = [p \in PaymentIds |->
                    IF p = FirstPaymentId THEN <<PENDING>> ELSE <<>>]
    /\ refund_calls = [p \in PaymentIds |-> 0]
    /\ last_applied = [p \in PaymentIds |-> 0]

\* The service after the customer has then paid the session and the
\* processor's "session completed" event, with the charge of that session,
\* has been applied: the row is Confirmed with the charge reference.
ConfirmedInit ==
    LET p == FirstPaymentId
        event == [op |-> "webhook", payment_id |-> p, sig_ok |-> TRUE,
                  type |-> "checkout.session.completed",
                  payment_intent |-> ChargeOf(p)]
    IN /\ db = (p :> WebhookApply(NewPayment("o1", p), ChargeOf(p)))
       /\ sessions = (p :> [payment_status |-> "paid", status |-> "complete",
                            payment_intent |-> ChargeOf(p),
                            refunded |-> FALSE])
       /\ pc = [s \in Procs |-> "idle"]
       /\ req = [s \in Procs |-> NoRequest]
       /\ loaded = [s \in Procs |-> NoPayment]
       /\ payment = [s \in Procs |-> NoPayment]
       /\ stripe_answer = [s \in Procs |-> "none"]
       /\ nreq = 0
       /\ last = Response(event, NewPayment("o1", p), "none", 200, "NONE")
       /\ history = [q \in PaymentIds |->
                       IF q = p THEN <<PENDING, CONFIRMED>> ELSE <<>>]
       /\ refund_calls = [q \in PaymentIds |-> 0]
       /\ last_applied = [q \in PaymentIds |->
                            IF q = p THEN ChargeOf(p) ELSE 0]

\* The service is taken up at either of these two points.
ServeInit == CreatedInit \/ ConfirmedInit

\* The requests that work on stored payments, and the processor.
ServeNext ==
    \/ \E s \in Procs : GetPaymentQuery(s)
    \/ \E s \in Procs : GetPaymentRetrieve(s)
    \/ \E s \in Procs : GetPaymentCommit(s)
    \/ \E s \in Procs : GetPaymentReturn(s)
    \/ \E s \in Procs : RefundPaymentQuery(s)
    \/ \E s \in Procs : RefundPaymentRetrieve(s)
    \/ \E s \in Procs : RefundPaymentCreate(s)
    \/ \E s \in Procs : RefundPaymentCommit(s)
    \/ \E s \in Procs : StripeWebhookQuery(s)
    \/ \E s \in Procs : StripeWebhookCommit(s)
    \/ \E sid \in PaymentIds : SessionPaid(sid)
    \/ \E sid \in PaymentIds : SessionExpired(sid)

ServeSpec == ServeInit /\ [][ServeNext]_vars

\* ------------------------------------------------- polling a stored payment
\* get_payment requests, alone or overlapping, and the processor.
PollNext ==
    \/ \E s \in Procs : GetPaymentQuery(s)
    \/ \E s \in Procs : GetPaymentRetrieve(s)
    \/ \E s \in Procs : GetPaymentCommit(s)
    \/ \E s \in Procs : GetPaymentReturn(s)
    \/ \E sid \in PaymentIds : SessionPaid(sid)
    \/ \E sid \in PaymentIds : SessionExpired(sid)

\* A get_payment that has started goes on: the worker runs the handler to
\* its end, and the processor call returns (an answer or an error).
Continue(s) ==
    \/ GetPaymentRetrieve(s)
    \/ GetPaymentCommit(s)
    \/ GetPaymentReturn(s)

Fairness == \A s \in Procs : WF_vars(Continue(s))

PollSpec == CreatedInit /\ [][PollNext]_vars /\ Fairness

\* ================================================================ claims

\* A step in which slot s accepts a request: a request is started, and s is
\* the slot it goes to.
Accepts(s) == nreq' = nreq + 1 /\ Free(s)

\* A step in which the handler of slot s goes on from position at.
Leaves(s, at) == pc[s] = at /\ pc'[s] # at

\* After a step of slot s: the request it serves or has just answered, and
\* the processor's last answer to it.
Served(s) == IF pc'[s] = "idle" THEN last'.req ELSE req'[s]
Answered(s) == IF pc'[s] = "idle" THEN last'.stripe_answer
               ELSE stripe_answer'[s]

\* The event of a webhook request: verified, a checkout.session.completed.
Completed(r) ==
    r.op = "webhook" /\ r.sig_ok /\ r.type = "checkout.session.completed"

\* C1: every change of a record's status is Pending->Confirmed,
\* Pending->Failed or Confirmed->Refunded: the status never moves backward
\* and never leaves Failed or Refunded.
AllowedTransitions ==
    {<<PENDING, CONFIRMED>>, <<PENDING, FAILED>>, <<CONFIRMED, REFUNDED>>}

C1_StatusTransitions ==
    [][\A p \in DOMAIN db :
          db'[p].status # db[p].status
            => <<db[p].status, db'[p].status>> \in AllowedTransitions]_vars

\* C2: in every reachable state the charge reference of a record is set if
\* and only if its status is Confirmed or Refunded.
C2_ChargeRefIffConfirmed ==
    \A p \in DOMAIN db :
       (db[p].stripe_payment_intent_id # 0)
         <=> (db[p].status \in {CONFIRMED, REFUNDED})

\* C3: when the processor's session creation succeeds, create_payment
\* persists exactly one new record, Pending and with a session reference,
\* and leaves the other records alone; when it fails, the request is
\* rejected and the set of records is unchanged.
C3_InitiatePayment ==
    [][\A s \in Procs :
         /\ (Accepts(s) /\ Served(s).op = "create")
              => /\ db' = db
                 /\ sessions' = sessions
                      => pc'[s] = "idle" /\ last'.code = 400
                 /\ sessions' # sessions
                      => pc'[s] = "create_commit"
         /\ Leaves(s, "create_commit")
              => LET p == req[s].payment_id
                 IN /\ p \in DOMAIN sessions
                    /\ p \notin DOMAIN db
                    /\ DOMAIN db' = DOMAIN db \cup {p}
                    /\ \A q \in DOMAIN db : db'[q] = db[q]
                    /\ db'[p].status = PENDING
                    /\ db'[p].stripe_session_id # 0
                    /\ pc'[s] = "idle" /\ last'.code = 200]_vars

\* C3 witness: a creation has succeeded and its Pending record, with its
\* session reference, is stored.
C3_Witness ==
    /\ last.req.op = "create" /\ last.code = 200
    /\ last.req.payment_id \in DOMAIN db
    /\ db[last.req.payment_id].status = PENDING
    /\ db[last.req.payment_id].stripe_session_id # 0

\* C4: applying the same verified "session completed" event a second time
\* for the same payment_id returns success and leaves the record Confirmed,
\* with status and charge reference as the first application left them.
C4_WebhookIdempotent ==
    [][\A s \in Procs :
         LET p == req[s].payment_id
         IN (Leaves(s, "webhook_commit")
               /\ last_applied[p] = req[s].payment_intent)
              => /\ pc'[s] = "idle" /\ last'.req = req[s] /\ last'.code = 200
                 /\ db' = db
                 /\ db'[p].status = CONFIRMED
                 /\ db'[p].stripe_payment_intent_id = req[s].payment_intent]_vars

\* C4 witness: an event has been applied to a record that its first
\* application had already confirmed.
C4_Witness ==
    /\ Completed(last.req) /\ last.code = 200
    /\ last.req.payment_id \in DOMAIN db
    /\ last.loaded.status = CONFIRMED
    /\ last.loaded.stripe_payment_intent_id = last.req.payment_intent
    /\ last_applied[last.req.payment_id] = last.req.payment_intent
    /\ history[last.req.payment_id] = <<PENDING, CONFIRMED>>

\* C5: a refund request for a record that is not Confirmed is rejected,
\* changes no record and asks the processor for nothing.
C5_RefundPrecondition ==
    [][\A s \in Procs :
         (Accepts(s) /\ Served(s).op = "refund"
            /\ Served(s).payment_id \in DOMAIN db
            /\ db[Served(s).payment_id].status # CONFIRMED)
           => /\ pc'[s] = "idle" /\ last'.code = 400
              /\ db' = db
              /\ sessions' = sessions
              /\ refund_calls' = refund_calls]_vars

\* C5 witness: the refund of a Failed record has been rejected.
C5_Witness ==
    /\ last.req.op = "refund" /\ last.code = 400
    /\ last.loaded.status = FAILED
    /\ db[last.req.payment_id].status = FAILED
    /\ refund_calls[last.req.payment_id] = 0

\* The handler of slot s found its payment Pending and tries to confirm it:
\* it serves a verified "session completed" event, or it is a get_payment
\* that the processor answered with "paid".
ConfirmAttempt(r, row, answer) ==
    /\ row.status = PENDING
    /\ Completed(r) \/ (r.op = "get" /\ answer = "paid")

\* Only confirmations have changed the status of a row with the statuses h.
OnlyConfirmed(h) == \A i \in 1..Len(h) : h[i] \in {PENDING, CONFIRMED}

C7_FailedStaysFailed ==
    [][\A s \in Procs :
         LET p == req[s].payment_id
         IN (Leaves(s, "webhook_commit")
               /\ loaded[s].status = FAILED /\ db[p].status = FAILED)
              => db'[p].status = FAILED]_vars

\* C8: a webhook whose signature does not verify is rejected with an error;
\* no row is selected and the whole table is as before.
C8_InvalidSignature ==
    [][\A s \in Procs :
         (Accepts(s) /\ Served(s).op = "webhook" /\ ~Served(s).sig_ok)
           => /\ pc'[s] = "idle" /\ last'.code = 400
              /\ last'.loaded = NoPayment
              /\ db' = db]_vars

\* C8 witness: an unverified "session completed" event for a stored Pending
\* payment has been rejected, the payment still Pending.
C8_Witness ==
    /\ last.req.op = "webhook" /\ ~last.req.sig_ok /\ last.code = 400
    /\ last.req.type = "checkout.session.completed"
    /\ last.req.payment_id \in DOMAIN db
    /\ db[last.req.payment_id].status = PENDING

\* C9: when the refund of a Confirmed record fails at the processor (a call
\* raises an error, or the refund is not "succeeded"), the request is
\* rejected and no field of any record changes.
C9_RefundFailure ==
    [][\A s \in Procs :
         ((Leaves(s, "refund_retrieve") \/ Leaves(s, "refund_create"))
            /\ loaded[s].status = CONFIRMED
            /\ Answered(s) \in {"error", "pending", "failed"})
           => /\ pc'[s] = "idle" /\ last'.req = req[s] /\ last'.code = 400
              /\ db' = db]_vars

\* C9 witness: the processor has answered a refund with "pending", the
\* request was rejected and the record is Confirmed.
C9_Witness ==
    /\ last.req.op = "refund" /\ last.code = 400
    /\ last.stripe_answer = "pending"
    /\ refund_calls[last.req.payment_id] = 1
    /\ db[last.req.payment_id].status = CONFIRMED

\* C10: a verified "session completed" event without a payment_id, or with
\* one that no record has, is acknowledged with success; no record changes
\* and none is created.
C10_UnknownPayment ==
    [][\A s \in Procs :
         (Accepts(s) /\ Completed(Served(s))
            /\ Served(s).payment_id \notin DOMAIN db)
           => /\ pc'[s] = "idle" /\ last'.code = 200
              /\ db' = db]_vars

\* C10 witness: with a record stored, an event for a payment_id that no
\* record has was acknowledged.
C10_Witness ==
    /\ DOMAIN db # {}
    /\ Completed(last.req) /\ last.code = 200
    /\ last.req.payment_id # 0
    /\ last.req.payment_id \notin DOMAIN db

\* C11: a get_payment that loaded a Pending record (with its session
\* reference) and is told "paid" commits the record as Confirmed, told
\* "expired" commits it as Failed, in both cases before it returns the stored
\* record; told anything else it returns the record still Pending and writes
\* nothing.  A get_payment for an unknown payment_id is answered 404 and
\* changes nothing.
C11_QuerySync ==
    [][\A s \in Procs :
         LET p == req[s].payment_id
         IN /\ (Accepts(s) /\ Served(s).op = "get"
                  /\ Served(s).payment_id \notin DOMAIN db)
                 => /\ pc'[s] = "idle" /\ last'.code = 404
                    /\ db' = db
            /\ (Leaves(s, "get_retrieve") /\ loaded[s].status = PENDING
                  /\ Answered(s) # "error")
                 => /\ db' = db
                    /\ Answered(s) = "paid"
                         => /\ pc'[s] = "get_commit"
                            /\ payment'[s].status = CONFIRMED
                    /\ Answered(s) = "expired"
                         => /\ pc'[s] = "get_commit"
                            /\ payment'[s].status = FAILED
                    /\ Answered(s) \notin {"paid", "expired"}
                         => /\ pc'[s] = "idle" /\ last'.code = 200
                            /\ last'.view = PENDING
            /\ (Leaves(s, "get_commit") /\ loaded[s].status = PENDING)
                 => /\ db'[p].status = payment[s].status
                    /\ pc'[s] = "get_return"
            /\ Leaves(s, "get_return")
                 => /\ pc'[s] = "idle" /\ last'.code = 200
                    /\ last'.view = db[p].status
                    /\ db' = db]_vars

\* C11 witness: a get_payment that loaded the record Pending was told
\* "expired" and has returned the record Failed, as it is stored.
C11_Witness ==
    /\ last.req.op = "get" /\ last.code = 200
    /\ last.loaded.status = PENDING
    /\ last.loaded.stripe_session_id # 0
    /\ last.stripe_answer = "expired"
    /\ last.view = FAILED
    /\ db[last.req.payment_id].status = FAILED

\* C12: the scenario create, verified "session completed" webhook, refund
\* that the processor carries out, second refund.  The record, created
\* Pending, is made Confirmed by the webhook with the event's charge
\* reference set, then Refunded by the first refund, which is answered with
\* success; the second refund is rejected and the record stays Refunded.
C12_PaymentScenario ==
    [][\A s \in Procs :
         LET p == req[s].payment_id
         IN /\ (Leaves(s, "webhook_commit") /\ history[p] = <<PENDING>>)
                 => /\ history'[p] = <<PENDING, CONFIRMED>>
                    /\ db'[p].stripe_payment_intent_id = req[s].payment_intent
                    /\ db'[p].stripe_payment_intent_id # 0
                    /\ pc'[s] = "idle" /\ last'.code = 200
            /\ (Leaves(s, "refund_create")
                  /\ history[p] = <<PENDING, CONFIRMED>>
                  /\ Answered(s) = "succeeded")
                 => pc'[s] = "refund_commit"
            /\ (Leaves(s, "refund_commit")
                  /\ history[p] = <<PENDING, CONFIRMED>>)
                 => /\ history'[p] = <<PENDING, CONFIRMED, REFUNDED>>
                    /\ pc'[s] = "idle" /\ last'.code = 200
            /\ (Accepts(s) /\ Served(s).op = "refund"
                  /\ Served(s).payment_id \in DOMAIN db
                  /\ history[Served(s).payment_id]
                       = <<PENDING, CONFIRMED, REFUNDED>>)
                 => /\ pc'[s] = "idle" /\ last'.code = 400
                    /\ db' = db
                    /\ db'[Served(s).payment_id].status = REFUNDED
                    /\ refund_calls' = refund_calls]_vars

\* C12 witness: the scenario has run to its end.  The second refund found
\* the record Refunded and was rejected; the record went through Pending,
\* Confirmed and Refunded, carries the charge reference of the event, and the
\* processor was asked for one refund.
C12_Witness ==
    /\ last.req.op = "refund" /\ last.code = 400
    /\ last.loaded.status = REFUNDED
    /\ history[last.req.payment_id] = <<PENDING, CONFIRMED, REFUNDED>>
    /\ db[last.req.payment_id].status = REFUNDED
    /\ db[last.req.payment_id].stripe_payment_intent_id # 0
    /\ refund_calls[last.req.payment_id] = 1

\* C13: a get_payment that loaded a record whose status is Confirmed, Failed
\* or Refunded returns it and changes nothing, whatever the processor
\* reports for its session.
C13_SyncOnlyPending ==
    [][\A s \in Procs :
         /\ (Leaves(s, "get_retrieve") /\ loaded[s].status # PENDING)
              => /\ pc'[s] = "idle"
                 /\ db' = db
         /\ (Leaves(s, "get_commit") /\ loaded[s].status # PENDING)
              => db' = db]_vars

\* C14: a confirm attempt (webhook or poll) that read the record before a
\* concurrent refund committed does not overwrite that refund: its commit
\* leaves a record that has become Refunded in the meantime Refunded.
C14_RefundNotOverwritten ==
    [][\A s \in Procs :
         LET p == req[s].payment_id
         IN ((Leaves(s, "webhook_commit") \/ Leaves(s, "get_commit"))
               /\ loaded[s].status # REFUNDED
               /\ db[p].status = REFUNDED)
              => db'[p].status = REFUNDED]_vars

\* The positions of refund_payment after its status precondition.
RefundPositions == {"refund_retrieve", "refund_create", "refund_commit"}

\* C15: of the refund requests for one payment that are in flight together,
\* at most one has passed the status precondition, so at most one goes on to
\* ask the processor for a refund and to commit Confirmed -> Refunded.
C15_OneRefundPasses ==
    \A s, t \in Procs :
       (s # t /\ pc[s] \in RefundPositions /\ pc[t] \in RefundPositions)
         => req[s].payment_id # req[t].payment_id

\* C16: no step removes a record, and no step changes a stored record's
\* payment_id (its key), its business attributes set at creation (order_id
\* stands for amount, currency, order_id, payment_method, customer_id,
\* metadata and created_at) or its session reference.
C16_CreationFieldsKept ==
    [][/\ DOMAIN db \subseteq DOMAIN db'
       /\ \A p \in DOMAIN db :
            /\ db'[p].order_id = db[p].order_id
            /\ db'[p].stripe_session_id = db[p].stripe_session_id]_vars

\* C16 witness: a record that a webhook confirmed and a refund then marked
\* Refunded still carries the order and the session reference it was
\* created with.
C16_Witness ==
    \E p \in DOMAIN db :
       /\ history[p] = <<PENDING, CONFIRMED, REFUNDED>>
       /\ db[p].stripe_payment_intent_id # 0
       /\ db[p].order_id \in OrderIds
       /\ db[p].stripe_session_id = p

\* C17: when Session.retrieve fails (or times out) in get_payment, the
\* request ends with an error and no record is written: status and
\* references are as before the call.
C17_SyncCallFails ==
    [][\A s \in Procs :
         (Leaves(s, "get_retrieve") /\ Answered(s) = "error")
           => /\ pc'[s] = "idle" /\ last'.req = req[s]
              /\ last'.code = 500
              /\ db' = db]_vars

\* C17 witness: the poll of a Pending record whose session is paid has
\* failed at the processor; the record is as the handler loaded it.
C17_Witness ==
    /\ last.req.op = "get" /\ last.code = 500
    /\ last.stripe_answer = "error"
    /\ last.loaded.status = PENDING
    /\ db[last.req.payment_id] = last.loaded
    /\ sessions[last.loaded.stripe_session_id].payment_status = "paid"

\* The row of payment p has had status st.
Was(p, st) == \E i \in 1..Len(history[p]) : history[p][i] = st

StatusOf(table, p) == IF p \in DOMAIN table THEN table[p].status ELSE "NONE"

\* The handler of slot s commits for payment p at position at, after the
\* processor's answer.
CommitsWith(s, p, at, answer) ==
    /\ Leaves(s, at)
    /\ req[s].payment_id = p
    /\ stripe_answer[s] = answer

\* C19: the status a step gives a record is justified by the processor.  A
\* record is made Confirmed only by the commit of a verified "session
\* completed" event or of a poll that was answered "paid"; it is made
\* Refunded only by the commit of a refund the processor answered with
\* "succeeded", and only after it was Confirmed; it is made Failed only by the
\* commit of a poll that was answered "expired"; it is Pending only from its
\* creation.
C19_StatusJustified ==
    [][\A p \in DOMAIN db' :
         LET new == db'[p].status
         IN StatusOf(db, p) # new
              => /\ new = PENDING => p \notin DOMAIN db
                 /\ new = CONFIRMED
                      => \E s \in Procs :
                           \/ /\ Leaves(s, "webhook_commit")
                              /\ req[s].payment_id = p
                              /\ Completed(req[s])
                           \/ CommitsWith(s, p, "get_commit", "paid")
                 /\ new = REFUNDED
                      => /\ Was(p, CONFIRMED)
                         /\ \E s \in Procs :
                              CommitsWith(s, p, "refund_commit", "succeeded")
                 /\ new = FAILED
                      => \E s \in Procs :
                           CommitsWith(s, p, "get_commit", "expired")]_vars

\* C19 witness: a record that a poll confirmed (no event has set a charge
\* reference) and a refund then marked Refunded; the processor holds its
\* session as paid and the charge as refunded.
C19_Witness ==
    \E p \in DOMAIN db :
       /\ db[p].status = REFUNDED
       /\ db[p].stripe_payment_intent_id = 0
       /\ sessions[db[p].stripe_session_id].payment_status = "paid"
       /\ sessions[db[p].stripe_session_id].refunded

\* The processor's session of payment p is paid or has expired.
Settled(p) ==
    /\ p \in DOMAIN db
    /\ sessions[db[p].stripe_session_id].status # "open"

\* The status a poll of payment p gives its Pending record.
Target(p) ==
    IF sessions[db[p].stripe_session_id].payment_status = "paid"
    THEN CONFIRMED ELSE FAILED

\* The get_payment of slot s for payment p has ended with the processor's
\* call failed.
PollFailed(s, p) ==
    /\ pc[s] = "idle"
    /\ last.req.op = "get" /\ last.req.payment_id = p
    /\ last.stripe_answer = "error"

\* C20: a record does not stay Pending once its session is paid or expired
\* and get_payment is issued for it: every such get_payment, unless its call
\* to the processor fails, leads to the record being Confirmed (session paid)
\* or Failed (session expired).  So with requests that keep being issued and
\* a processor call that eventually succeeds the record leaves Pending.
C20_PendingResolves ==
    \A s \in Procs, p \in PaymentIds :
       (/\ pc[s] = "get_retrieve" /\ req[s].payment_id = p
        /\ Settled(p)
        /\ db[p].status = PENDING)
         ~> (PollFailed(s, p) \/ (Settled(p) /\ Was(p, Target(p))))

\* C20 witness: a get_payment found the record Pending with its session
\* paid and has returned it Confirmed; the poll alone confirmed it (no event
\* has set a charge reference).
C20_Witness ==
    /\ last.req.op = "get" /\ last.code = 200
    /\ last.loaded.status = PENDING
    /\ last.stripe_answer = "paid"
    /\ last.view = CONFIRMED
    /\ history[last.req.payment_id] = <<PENDING, CONFIRMED>>
    /\ db[last.req.payment_id].stripe_payment_intent_id = 0

=============================================================================
